---- MODULE Spec2Model ----
(***************************************************************************)
(* Windowed incremental fetch / cache / merge of patient measurements:    *)
(* server/api_data_utils.py (get_api_data, fetch_stream_batch,            *)
(* safe_concat_dataframes) and the HTTP endpoint of server/main.py.       *)
(*                                                                         *)
(* Time is counted in hours.  A timestamp is a record                      *)
(*   [wall, aware, off] : wall-clock reading, whether it carries a zone,  *)
(*   and the zone's offset from UTC (0 when naive).                       *)
(* A table (DataFrame) is a sequence of rows; a row is a record over      *)
(* KEEP_COLUMNS.  The library semantics assumed are those of pandas 1.x / *)
(* 2.x: concatenating an empty frame with a typed one keeps the typed     *)
(* column, and .dt on an all-object (empty) column raises.                *)
(***************************************************************************)
EXTENDS Integers, Sequences, FiniteSets, TLC

\* ------------------------------------------------------------------ bounds

\* stream count of the larger patient (more than one batch of BATCH_SIZE)
MaxStreams == 11

\* the largest number of stream identifiers the resolver returns when the
\* batch partition is examined for every list length
MaxIds == 25

\* ------------------------------------------------------- program constants

BATCH_SIZE == 10

WINDOW_DAYS == 30

KEEP_COLUMNS ==
    {"time", "measurement", "severity", "percentage",
     "measurement_duration_ns", "device_id"}

ALLOWED_TYPES == {"tremor", "dyskinesia"}

\* ---------------------------------------------------------------- time

Days(n) == n * 24

Naive(w) == [wall |-> w, aware |-> FALSE, off |-> 0]

Aware(w, o) == [wall |-> w, aware |-> TRUE, off |-> o]

\* the UTC instant of a zoned timestamp
Instant(ts) == ts.wall - ts.off

\* Timestamp.tz_localize("UTC") / Series.dt.tz_localize("UTC"): defined on
\* naive values only (pandas raises TypeError on a zoned one)
CanLocalize(ts) == ~ts.aware

TzLocalizeUTC(ts) == Aware(ts.wall, 0)

\* Series.dt.tz_convert("UTC")
TzConvertUTC(ts) == Aware(ts.wall - ts.off, 0)

\* Series.dt.tz_localize(None): drop the zone, keep the wall reading
TzStrip(ts) == Naive(ts.wall)

\* ---------------------------------------------------------------- tables

Range(s) == {s[i] : i \in 1..Len(s)}

MapSeq(s, F(_)) == [i \in 1..Len(s) |-> F(s[i])]

RECURSIVE Flatten(_)
Flatten(ss) == IF ss = <<>> THEN <<>> ELSE Head(ss) \o Flatten(Tail(ss))

Max2(a, b) == IF a >= b THEN a ELSE b

SeqMaxInstant(df) ==
    CHOOSE m \in {Instant(df[i].time) : i \in 1..Len(df)} :
        \A i \in 1..Len(df) : Instant(df[i].time) <= m

\* df[KEEP_COLUMNS]
SelectKeepColumns(raw) == [c \in KEEP_COLUMNS |-> raw[c]]

\* the time-column normalisation applied to the cache and to every batch:
\* localize a naive column to UTC, convert a zoned one to UTC
NormalizeTime(row) ==
    [row EXCEPT !.time = IF row.time.aware THEN TzConvertUTC(row.time)
                                            ELSE TzLocalizeUTC(row.time)]

\* the conversion done before saving: tz_convert("UTC").tz_localize(None)
ToSaved(row) == [row EXCEPT !.time = TzStrip(TzConvertUTC(row.time))]

\* safe_concat_dataframes
safe_concat_dataframes(dfs) == IF dfs = <<>> THEN <<>> ELSE Flatten(dfs)

\* DataFrame.drop_duplicates(): keep the first occurrence of every full row
RECURSIVE DropDuplicatesFrom(_, _)
DropDuplicatesFrom(df, seen) ==
    IF df = <<>> THEN <<>>
    ELSE IF Head(df) \in seen THEN DropDuplicatesFrom(Tail(df), seen)
    ELSE <<Head(df)>> \o DropDuplicatesFrom(Tail(df), seen \cup {Head(df)})

RECURSIVE MutDropByKeyFrom(_, _)
MutDropByKeyFrom(df, seen) ==
    IF df = <<>> THEN <<>>
    ELSE LET key == <<Head(df).time, Head(df).measurement>>
         IN  IF key \in seen THEN MutDropByKeyFrom(Tail(df), seen)
             ELSE <<Head(df)>> \o MutDropByKeyFrom(Tail(df), seen \cup {key})

MutDropDuplicatesByKey(df) == MutDropByKeyFrom(df, {})

MutDropDuplicates(df) == df

DropDuplicates(df) == DropDuplicatesFrom(df, {})


\* the window filter: rows with lower_bound <= time <= upper_bound
MutFilterWindowOpenUpper(df, lower_bound, upper_bound) ==
    SelectSeq(df, LAMBDA row :
        /\ Instant(row.time) >= Instant(lower_bound)
        /\ Instant(row.time) < Instant(upper_bound))

MutFilterWindowNoLower(df, lower_bound, upper_bound) ==
    SelectSeq(df, LAMBDA row : Instant(row.time) <= Instant(upper_bound))

FilterWindow(df, lower_bound, upper_bound) ==
    SelectSeq(df, LAMBDA row :
        /\ Instant(row.time) >= Instant(lower_bound)
        /\ Instant(row.time) <= Instant(upper_bound))

\* final_df[final_df["measurement"] == measurement_type] (skipped by the code
\* when the frame is empty, where it changes nothing)
FilterMeasurement(df, measurement_type) ==
    IF df = <<>> THEN df
    ELSE SelectSeq(df, LAMBDA row : row.measurement = measurement_type)

\* upper_bound = pd.Timestamp(selected_date).tz_localize("UTC")
UpperBound(selected_date) == TzLocalizeUTC(selected_date)

\* lower_bound = upper_bound - pd.Timedelta(days=30)
LowerBound(upper_bound) ==
    [upper_bound EXCEPT !.wall = upper_bound.wall - Days(WINDOW_DAYS)]

\* the start_time of the incremental fetch
MutFetchStartCacheMax(cached_df, repull_all, lower_bound) ==
    IF ~repull_all /\ cached_df # <<>>
    THEN Aware(SeqMaxInstant(cached_df), 0)
    ELSE lower_bound

FetchStartTime(cached_df, repull_all, lower_bound) ==
    IF ~repull_all /\ cached_df # <<>>
    THEN Aware(Max2(SeqMaxInstant(cached_df), Instant(lower_bound)), 0)
    ELSE lower_bound

\* np.ceil(len(stream_ids) / BATCH_SIZE)
NumBatches(n) == (n + BATCH_SIZE - 1) \div BATCH_SIZE

MutArraySplitFixed(ids, k) ==
    [j \in 1..k |->
        SubSeq(ids, (j - 1) * BATCH_SIZE + 1,
               IF j * BATCH_SIZE <= Len(ids) THEN j * BATCH_SIZE ELSE Len(ids))]

\* np.array_split(ids, k): k sections, the first Len(ids) % k of them one
\* element longer than the others
ArraySplit(ids, k) ==
    LET n == Len(ids)
        q == n \div k
        e == n % k
        First(j) == IF j <= e + 1 THEN (j - 1) * (q + 1) + 1
                                    ELSE e * (q + 1) + (j - 1 - e) * q + 1
    IN  [j \in 1..k |-> SubSeq(ids, First(j), First(j + 1) - 1)]


\* ------------------------------------------------- the external services

Patients == {"P1", "P2"}

RawRow(stream, ts, kind, pct) ==
    [stream_id |-> stream, time |-> ts, measurement |-> kind,
     severity |-> "mild", percentage |-> pct,
     measurement_duration_ns |-> 60, device_id |-> "watch"]

\* What the remote API holds for each patient: the number of streams the
\* metadata resolver knows and the raw samples by stream.  P1 has more than
\* BATCH_SIZE streams (two batches), its first stream reports naive times and
\* its last one zoned times one hour ahead of UTC; both carry the 60-day
\* tremor sample.  P2 has a single stream with two samples that differ in
\* their percentage only.
Upstream(patient_id) ==
    IF patient_id = "P1"
    THEN [streams |-> MaxStreams,
          rows |-> << RawRow(1, Naive(Days(10)), "tremor", 5),
                      RawRow(1, Naive(Days(35)), "tremor", 5),
                      RawRow(1, Naive(Days(60)), "tremor", 5),
                      RawRow(MaxStreams, Aware(Days(40) + 1, 1), "dyskinesia", 5),
                      RawRow(MaxStreams, Aware(Days(60) + 1, 1), "tremor", 5),
                      RawRow(MaxStreams, Aware(Days(70) + 1, 1), "tremor", 5) >>]
    ELSE [streams |-> 1,
          rows |-> << RawRow(1, Naive(Days(20)), "tremor", 7),
                      RawRow(1, Naive(Days(20)), "tremor", 9) >>]

\* get_patient_stream_metadata(...).ids() when the filter matches
AllStreamIds(patient_id) == [i \in 1..Upstream(patient_id).streams |-> i]

\* get_stream_dataframe(stream_ids, start_time): every raw sample of the
\* given streams at or after start_time
get_stream_dataframe(patient_id, stream_ids, start_time) ==
    SelectSeq(Upstream(patient_id).rows, LAMBDA raw :
        /\ raw.stream_id \in Range(stream_ids)
        /\ Instant(NormalizeTime(raw).time) >= Instant(start_time))

\* fetch_stream_batch: the batch's samples restricted to KEEP_COLUMNS, or
\* None (the empty table here) when the source fails or returns nothing
fetch_stream_batch(patient_id, stream_ids, start_time, ok) ==
    IF ok THEN MapSeq(get_stream_dataframe(patient_id, stream_ids, start_time),
                      SelectKeepColumns)
    ELSE <<>>

\* ------------------------------------------------------------ the inputs

\* main.py lines 69-71: datetime.fromisoformat(text.replace("Z", "+00:00"))
\* of a date string with the given wall reading; a trailing "Z" yields a
\* UTC-zoned datetime, no suffix a naive one
EndpointDate(wall, suffix) == IF suffix = "Z" THEN Aware(wall, 0) ELSE Naive(wall)

SelectedDates ==
    {EndpointDate(Days(35), ""), EndpointDate(Days(65), ""), EndpointDate(Days(65), "Z")}

MeasurementTypes == {"tremor", "dyskinesia", "bradykinesia"}

\* the resolver answers with the patient's streams ("all"), with a given
\* number of streams ("some"), with none, or raises: an error of the API
\* client ("raise") or a ValueError ("raise_value", e.g. a response that does
\* not decode)
ResolverOutcomes == {"all", "none", "raise", "raise_value"}

Slots == {1, 2}

\* ------------------------------------------------------------- the state

VARIABLES
    cache,      \* data/api/<patient_id>.feather: [exists, rows (naive UTC times)]
    req,        \* one record per request slot: the locals of get_api_data
    clean       \* per patient: no call so far met a fault or a resolver
                \* answer other than the patient's full stream list

vars == <<cache, req, clean>>

NoTime == Aware(0, 0)

NoTwin == [is |-> FALSE, status |-> "none", result |-> <<>>,
           cache_after |-> [exists |-> FALSE, rows |-> <<>>],
           read_fault |-> FALSE, write_fault |-> FALSE, failed |-> {},
           resolver |-> "uncalled"]

IdleReq ==
    [pc |-> "idle", patient_id |-> "P1", selected_date |-> NoTime,
     measurement_type |-> "tremor", repull_all |-> FALSE,
     upper_bound |-> NoTime, lower_bound |-> NoTime,
     cached_df |-> <<>>, cached_filtered |-> <<>>,
     fetch_start_time |-> NoTime, stream_ids |-> <<>>, futures |-> <<>>,
     combined_df |-> <<>>, status |-> "none", result |-> <<>>, io |-> {},
     read_fault |-> FALSE, write_fault |-> FALSE, resolver |-> "uncalled",
     cache_before |-> [exists |-> FALSE, rows |-> <<>>], twin |-> NoTwin]

Init ==
    /\ cache = [p \in Patients |-> [exists |-> FALSE, rows |-> <<>>]]
    /\ req = [r \in Slots |-> IdleReq]
    /\ clean = [p \in Patients |-> TRUE]


\* ----------------------------------------------------------- get_api_data

\* lines 73-75: the measurement types get_api_data accepts
MutValidateNothing(measurement_type) == TRUE

ValidMeasurementType(measurement_type) == measurement_type \in ALLOWED_TYPES

\* line 102: the cache file of a patient, data/api/<patient_id>.feather
MutCachePathShared(patient_id) == "P1"

CachePath(patient_id) == patient_id

\* line 109: the cache file is read when it exists and repull_all is false
MutReadsCacheAlways(exists, repull_all) == exists

ReadsCache(exists, repull_all) == exists /\ ~repull_all

\* lines 108-123: the loaded table; a failed read is logged and leaves the
\* empty table
MutLoadCacheKeepsRows(entry, reads, read_fault) ==
    IF reads THEN MapSeq(entry.rows, NormalizeTime) ELSE <<>>

LoadCache(entry, reads, read_fault) ==
    IF reads /\ ~read_fault THEN MapSeq(entry.rows, NormalizeTime) ELSE <<>>

\* The previous call of the slot, kept when the new call repeats its
\* arguments with repull_all = false: its outcome and the Cache Entry it left.
TwinOf(r, patient_id, selected_date, measurement_type, repull_all) ==
    IF /\ req[r].pc = "done"
       /\ req[r].patient_id = patient_id
       /\ req[r].selected_date = selected_date
       /\ req[r].measurement_type = measurement_type
       /\ ~req[r].repull_all /\ ~repull_all
    THEN [is |-> TRUE, status |-> req[r].status, result |-> req[r].result,
          cache_after |-> cache[CachePath(patient_id)],
          read_fault |-> req[r].read_fault, write_fault |-> req[r].write_fault,
          failed |-> {g \in 1..Len(req[r].futures) :
                          req[r].futures[g].state = "failed"},
          resolver |-> req[r].resolver]
    ELSE NoTwin

\* main.py lines 68-71: a date string fromisoformat cannot parse raises
\* ValueError in the endpoint, before get_api_data is called.
RejectDate(r, patient_id, measurement_type, repull_all) ==
    /\ req[r].pc \in {"idle", "done"}
    /\ req' = [req EXCEPT ![r] =
                  [IdleReq EXCEPT !.pc = "done", !.status = "DateError",
                                  !.patient_id = patient_id,
                                  !.measurement_type = measurement_type,
                                  !.repull_all = repull_all,
                                  !.cache_before = cache[CachePath(patient_id)]]]
    /\ UNCHANGED <<cache, clean>>

\* Lines 73-134: validation, configuration, window, cache load, fetch start.
Call(r, patient_id, selected_date, measurement_type, repull_all, read_fault, track) ==
    /\ req[r].pc \in {"idle", "done"}
    /\ LET base == [IdleReq EXCEPT
                        !.patient_id = patient_id,
                        !.selected_date = selected_date,
                        !.measurement_type = measurement_type,
                        !.repull_all = repull_all,
                        !.cache_before = cache[CachePath(patient_id)],
                        !.twin = IF track
                                 THEN TwinOf(r, patient_id, selected_date,
                                             measurement_type, repull_all)
                                 ELSE NoTwin]
           upper_bound == UpperBound(selected_date)
           lower_bound == LowerBound(upper_bound)
           reads == ReadsCache(cache[CachePath(patient_id)].exists, repull_all)
           cached_df == LoadCache(cache[CachePath(patient_id)], reads, read_fault)
       IN  IF ~ValidMeasurementType(measurement_type)
           THEN /\ req' = [req EXCEPT ![r] =
                              [base EXCEPT !.pc = "done", !.status = "ValueError"]]
                /\ UNCHANGED clean
           ELSE IF ~CanLocalize(selected_date)
           THEN /\ req' = [req EXCEPT ![r] =
                              [base EXCEPT !.pc = "done", !.status = "TypeError",
                                           !.io = {"config", "mkdir"}]]
                /\ UNCHANGED clean
           ELSE /\ req' = [req EXCEPT ![r] =
                              [base EXCEPT
                                 !.pc = "loaded",
                                 !.upper_bound = upper_bound,
                                 !.lower_bound = lower_bound,
                                 !.cached_df = cached_df,
                                 !.cached_filtered =
                                     FilterWindow(cached_df, lower_bound, upper_bound),
                                 !.fetch_start_time =
                                     FetchStartTime(cached_df, repull_all, lower_bound),
                                 !.read_fault = reads /\ read_fault,
                                 !.io = {"config", "mkdir", "cache_exists"}
                                        \cup IF reads THEN {"cache_read"} ELSE {}]]
                /\ clean' = [clean EXCEPT ![patient_id] = @ /\ ~(reads /\ read_fault)]
    /\ UNCHANGED cache

\* one future per batch, as submitted to the executor
SubmitBatches(stream_ids, start_time) ==
    LET batches == ArraySplit(stream_ids, NumBatches(Len(stream_ids)))
    IN  [g \in 1..Len(batches) |->
            [stream_ids |-> batches[g], start_time |-> start_time,
             state |-> "running", df |-> <<>>]]

\* lines 137-143: the stream identifiers the resolver returned
ResolvedIds(patient_id, outcome, n) ==
    CASE outcome = "all" -> AllStreamIds(patient_id)
      [] outcome = "some" -> [i \in 1..n |-> i]
      [] OTHER -> <<>>

\* Lines 136-160: the metadata resolver, the zero-stream return, the fan-out.
Resolve(r, outcome, n) ==
    /\ req[r].pc = "loaded"
    /\ LET me == req[r]
           io == me.io \cup {"resolver"}
           stream_ids == ResolvedIds(me.patient_id, outcome, n)
       IN  /\ req' = [req EXCEPT ![r] =
                CASE outcome = "raise" ->
                        [me EXCEPT !.pc = "done", !.status = "ResolverError",
                                   !.resolver = outcome, !.io = io]
                  [] outcome = "raise_value" ->
                        [me EXCEPT !.pc = "done", !.status = "ResolverValueError",
                                   !.resolver = outcome, !.io = io]
                  [] stream_ids = <<>> ->
                        [me EXCEPT !.pc = "done", !.status = "ok",
                                   !.result = me.cached_filtered,
                                   !.resolver = "none", !.io = io]
                  [] OTHER ->
                        [me EXCEPT !.pc = "fetching",
                                   !.stream_ids = stream_ids,
                                   !.futures = SubmitBatches(stream_ids,
                                                             me.fetch_start_time),
                                   !.resolver = outcome, !.io = io]]
           /\ clean' = [clean EXCEPT ![me.patient_id] = @ /\ outcome = "all"]
    /\ UNCHANGED cache

\* Lines 38-50: one worker runs fetch_stream_batch for batch g to its end.
FetchDone(r, g, ok) ==
    /\ req[r].pc = "fetching"
    /\ g \in 1..Len(req[r].futures)
    /\ req[r].futures[g].state = "running"
    /\ LET me == req[r]
           f == me.futures[g]
       IN  /\ req' = [req EXCEPT ![r] =
                [me EXCEPT !.io = @ \cup {"sample_source"},
                           !.futures[g] =
                               [f EXCEPT !.state = IF ok THEN "ok" ELSE "failed",
                                         !.df = fetch_stream_batch(me.patient_id,
                                                    f.stream_ids, f.start_time, ok)]]]
           /\ clean' = [clean EXCEPT ![me.patient_id] = @ /\ ok]
    /\ UNCHANGED cache

MutCollectAllOrNothing(futures) ==
    IF \E g \in 1..Len(futures) : futures[g].state = "failed"
    THEN <<>>
    ELSE LET kept == SelectSeq(futures, LAMBDA f : f.df # <<>>)
         IN  [i \in 1..Len(kept) |-> MapSeq(kept[i].df, NormalizeTime)]

\* lines 161-174: the batches that delivered rows, in submission order, each
\* with its time column normalised to UTC
CollectBatches(futures) ==
    LET kept == SelectSeq(futures, LAMBDA f : f.df # <<>>)
    IN  [i \in 1..Len(kept) |-> MapSeq(kept[i].df, NormalizeTime)]

\* lines 176-183: cache and new data concatenated, exact duplicates dropped
Combine(cached_df, dfs) ==
    DropDuplicates(cached_df \o (IF dfs # <<>> THEN safe_concat_dataframes(dfs)
                                               ELSE <<>>))

\* lines 186-194: the write raises when the save conversion does (the .dt
\* accessor on the all-object time column of an empty combined table) or
\* when the store fails; either way the error is logged and the file is left
CacheWritten(combined_df, write_fault) == combined_df # <<>> /\ ~write_fault

\* lines 196-206
FinalFrame(combined_df, lower_bound, upper_bound, measurement_type) ==
    FilterMeasurement(FilterWindow(combined_df, lower_bound, upper_bound),
                      measurement_type)

\* lines 161-163 and the end of the with block: future.result() has returned
\* for every submitted future
MutAnyFutureDone(futures) == \E g \in 1..Len(futures) : futures[g].state # "running"

AllFuturesDone(futures) == \A g \in 1..Len(futures) : futures[g].state # "running"

\* lines 193-206: a failed write is logged and the call goes on to return the
\* filtered merged table
MutReturnWriteFatal(written, final_df) ==
    IF written THEN [status |-> "ok", result |-> final_df]
    ELSE [status |-> "CacheWriteError", result |-> <<>>]

ReturnAfterWrite(written, final_df) == [status |-> "ok", result |-> final_df]

\* Lines 161-206: fan-in, merge, persist, filter, return.
Merge(r, write_fault) ==
    /\ req[r].pc = "fetching"
    /\ AllFuturesDone(req[r].futures)
    /\ LET me == req[r]
           combined_df == Combine(me.cached_df, CollectBatches(me.futures))
           written == CacheWritten(combined_df, write_fault)
           ret == ReturnAfterWrite(written,
                      FinalFrame(combined_df, me.lower_bound, me.upper_bound,
                                 me.measurement_type))
       IN  /\ cache' = IF written
                       THEN [cache EXCEPT ![CachePath(me.patient_id)] =
                                [exists |-> TRUE, rows |-> MapSeq(combined_df, ToSaved)]]
                       ELSE cache
           /\ req' = [req EXCEPT ![r] =
                [me EXCEPT !.pc = "done", !.status = ret.status,
                           !.combined_df = combined_df,
                           !.result = ret.result,
                           !.write_fault = ~written,
                           !.io = @ \cup {"cache_write"}]]
           /\ clean' = [clean EXCEPT ![me.patient_id] = @ /\ written]

\* main.py lines 87-92: the except clauses of the endpoint match on the class
\* of the exception: ValueError (and its subclasses) first, then Exception
IsValueError(status) == status \in {"ValueError", "DateError", "ResolverValueError"}

HttpStatus(status) ==
    IF status = "ok" THEN 200
    ELSE IF IsValueError(status) THEN 400
    ELSE 500

\* ------------------------------------------------------- specifications

\* A fault is drawn only where the code performs the operation it hits.
ReadFaults(patient_id, repull_all, faults) ==
    IF ReadsCache(cache[CachePath(patient_id)].exists, repull_all)
    THEN faults ELSE {FALSE}

Step(r, dates, types, repulls, outcomes, counts, faults, track) ==
    \/ \E patient_id \in Patients, selected_date \in dates,
          measurement_type \in types, repull_all \in repulls :
          \E read_fault \in ReadFaults(patient_id, repull_all, faults) :
            Call(r, patient_id, selected_date, measurement_type, repull_all,
                 read_fault, track)
    \/ \E patient_id \in Patients, measurement_type \in types, repull_all \in repulls :
            RejectDate(r, patient_id, measurement_type, repull_all)
    \/ \E outcome \in outcomes, n \in counts : Resolve(r, outcome, n)
    \/ \E g \in 1..NumBatches(Max2(MaxStreams, MaxIds)), fault \in faults :
            FetchDone(r, g, ~fault)
    \/ \E write_fault \in faults : Merge(r, write_fault)

\* one request at a time, every input and every fault
Next ==
    Step(1, SelectedDates, MeasurementTypes, BOOLEAN, ResolverOutcomes, {0},
         BOOLEAN, FALSE)

Spec == Init /\ [][Next]_vars

\* one request at a time with a valid measurement type, every fault, each
\* call remembering the call before it when it repeats it
NextRepeat ==
    Step(1, SelectedDates, ALLOWED_TYPES, BOOLEAN, {"all", "none", "raise"}, {0},
         BOOLEAN, TRUE)

SpecRepeat == Init /\ [][NextRepeat]_vars

\* one request at a time, the resolver returning any number of streams from
\* 1 to MaxIds, no fault
NextBatch ==
    Step(1, {Naive(Days(35)), Naive(Days(65))}, {"tremor"}, {FALSE}, {"some"},
         1..MaxIds, {FALSE}, FALSE)

SpecBatch == Init /\ [][NextBatch]_vars

\* two requests served concurrently: valid incremental requests, no fault
NextConc ==
    \E r \in Slots :
        Step(r, {Naive(Days(35)), Naive(Days(65))}, {"tremor"}, {FALSE}, {"all"},
             {0}, {FALSE}, FALSE)

SpecConc == Init /\ [][NextConc]_vars

\* ------------------------------------------------------------ properties

\* the call of slot r has returned a table
Returned(r) == req[r].pc = "done" /\ req[r].status = "ok"

\* a selected date read as a UTC instant, and the start of its 30-day window
DateInstant(selected_date) == selected_date.wall - selected_date.off

WindowStart(selected_date) == DateInstant(selected_date) - Days(30)

InWindow(row, selected_date) ==
    /\ WindowStart(selected_date) <= Instant(row.time)
    /\ Instant(row.time) <= DateInstant(selected_date)

\* the Cache Entry as a table of UTC-zoned rows
EntryRows(entry) == MapSeq(entry.rows, NormalizeTime)

\* the table the call loaded: the Cache Entry, or the empty table when
\* repull_all is set, the entry is missing or it cannot be read
LoadedRows(r) ==
    IF req[r].repull_all \/ ~req[r].cache_before.exists \/ req[r].read_fault
    THEN <<>>
    ELSE EntryRows(req[r].cache_before)

\* what the remote API holds for a patient, as rows of the output schema
UpstreamRows(patient_id) ==
    {NormalizeTime(SelectKeepColumns(raw)) : raw \in Range(Upstream(patient_id).rows)}

\* C1 (window correctness): every row of a returned table, on the merge path
\* and on the zero-stream return alike, has D - 30 days <= time <= D for the
\* call's selected date D.
C1_WindowCorrectness ==
    \A r \in Slots :
        Returned(r) =>
            \A i \in 1..Len(req[r].result) :
                InWindow(req[r].result[i], req[r].selected_date)

\* a merged call whose table holds a row on the window's lower edge while the
\* merged data also holds rows before and after the window
C1_Witness ==
    \E r \in Slots :
        /\ Returned(r) /\ req[r].resolver = "all" /\ req[r].futures # <<>>
        /\ \E i \in 1..Len(req[r].result) :
               Instant(req[r].result[i].time) = WindowStart(req[r].selected_date)
        /\ \E i \in 1..Len(req[r].combined_df) :
               Instant(req[r].combined_df[i].time) < WindowStart(req[r].selected_date)
        /\ \E i \in 1..Len(req[r].combined_df) :
               Instant(req[r].combined_df[i].time) > DateInstant(req[r].selected_date)

\* C2 (measurement-kind filter): no row of a returned table has a kind other
\* than the requested measurement_type, on every return path.
C2_KindFilter ==
    \A r \in Slots :
        Returned(r) =>
            \A i \in 1..Len(req[r].result) :
                req[r].result[i].measurement = req[r].measurement_type

\* C3 (exact window content): with every call of the patient so far free of
\* faults and resolved to the patient's full stream list, a returned table
\* holds exactly the upstream samples of the requested kind in [D - 30 days, D].
C3_ExactWindowContent ==
    \A r \in Slots :
        (Returned(r) /\ req[r].resolver = "all" /\ clean[req[r].patient_id]) =>
            Range(req[r].result) =
                {row \in UpstreamRows(req[r].patient_id) :
                    /\ row.measurement = req[r].measurement_type
                    /\ InWindow(row, req[r].selected_date)}

\* C4 (fetch-start rule): the start_time handed to every group fetch is
\* lower_bound when repull_all is set or the loaded cache is empty, and
\* max(latest cached time, lower_bound) otherwise.
C4_FetchStartRule ==
    \A r \in Slots :
        \A g \in 1..Len(req[r].futures) :
            LET me == req[r]
                start == me.futures[g].start_time
                loaded == LoadedRows(r)
                times == {Instant(loaded[i].time) : i \in 1..Len(loaded)}
            IN  /\ start.aware /\ start.off = 0
                /\ IF me.repull_all \/ loaded = <<>>
                   THEN Instant(start) = WindowStart(me.selected_date)
                   ELSE /\ Instant(start) >= WindowStart(me.selected_date)
                        /\ \A t \in times : Instant(start) >= t
                        /\ Instant(start) \in times \cup {WindowStart(me.selected_date)}

\* the spec's example: the cache's latest row is 5 days before D, the window
\* starts 30 days before D, and the groups are fetched from D - 5 days
C4_Witness ==
    \E r \in Slots :
        /\ req[r].pc = "fetching" /\ ~req[r].repull_all
        /\ Len(req[r].futures) >= 2 /\ req[r].cached_df # <<>>
        /\ SeqMaxInstant(req[r].cached_df) = DateInstant(req[r].selected_date) - Days(5)
        /\ \A g \in 1..Len(req[r].futures) :
               Instant(req[r].futures[g].start_time) =
                   DateInstant(req[r].selected_date) - Days(5)

\* the clamp: the cache's latest row is older than the window and the groups
\* are fetched from lower_bound
C4_ClampReached ==
    \E r \in Slots :
        /\ req[r].pc = "fetching" /\ ~req[r].repull_all /\ req[r].cached_df # <<>>
        /\ SeqMaxInstant(req[r].cached_df) < WindowStart(req[r].selected_date)

\* C5 (idempotent re-fetch): a call that repeats the call before it (same
\* arguments, repull_all = false, same resolver answer, same failed groups,
\* same cache faults) ends as that call did, returns the identical table and
\* leaves the Cache Entry as that call left it.
SameOutcomes(r) ==
    /\ req[r].resolver = req[r].twin.resolver
    /\ req[r].read_fault = req[r].twin.read_fault
    /\ req[r].write_fault = req[r].twin.write_fault
    /\ {g \in 1..Len(req[r].futures) : req[r].futures[g].state = "failed"}
           = req[r].twin.failed

C5_IdempotentRefetch ==
    \A r \in Slots :
        (req[r].pc = "done" /\ req[r].twin.is /\ SameOutcomes(r)) =>
            /\ req[r].status = req[r].twin.status
            /\ req[r].result = req[r].twin.result
            /\ cache[CachePath(req[r].patient_id)] = req[r].twin.cache_after

\* a fault-free repeat whose fetch delivered rows the cache already held
C5_Witness ==
    \E r \in Slots :
        /\ Returned(r) /\ req[r].twin.is /\ SameOutcomes(r)
        /\ req[r].resolver = "all"
        /\ ~req[r].read_fault /\ ~req[r].write_fault
        /\ req[r].result # <<>>
        /\ Len(req[r].cached_df) >= 2
        /\ \E g \in 1..Len(req[r].futures) : req[r].futures[g].df # <<>>

\* the rows of entry that lie in the window of selected_date
WindowOf(df, selected_date) ==
    SelectSeq(df, LAMBDA row : InWindow(row, selected_date))

\* C6 as claimed: on zero streams the call returns the Cache Entry filtered to
\* the window and never invokes the sample source, for every repull_all
\* (the entry being readable).
C6_ShortCircuitAnyRepull ==
    \A r \in Slots :
        (req[r].pc = "done" /\ req[r].resolver = "none" /\ ~req[r].read_fault) =>
            /\ req[r].result =
                   WindowOf(EntryRows(req[r].cache_before), req[r].selected_date)
            /\ "sample_source" \notin req[r].io

\* C6 (empty-stream short-circuit, amended): on zero streams the call returns
\* the loaded table filtered to the window - the Cache Entry when repull_all is
\* false and the entry is readable, the empty table otherwise - and the sample
\* source is never invoked during the call.
C6_ShortCircuit ==
    \A r \in Slots :
        (req[r].pc = "done" /\ req[r].resolver = "none") =>
            /\ req[r].status = "ok"
            /\ req[r].result = WindowOf(LoadedRows(r), req[r].selected_date)
            /\ "sample_source" \notin req[r].io
            /\ req[r].futures = <<>>

\* a zero-stream return over a cache with rows inside and outside the window
C6_Witness ==
    \E r \in Slots :
        /\ Returned(r) /\ req[r].resolver = "none" /\ ~req[r].repull_all
        /\ req[r].result # <<>>
        /\ Len(req[r].result) < Len(req[r].cache_before.rows)

\* the samples the remote API holds for one batch from start_time on
GroupRows(patient_id, stream_ids, start_time) ==
    {NormalizeTime(SelectKeepColumns(raw)) :
        raw \in {x \in Range(Upstream(patient_id).rows) :
                    /\ x.stream_id \in Range(stream_ids)
                    /\ Instant(NormalizeTime(x).time) >= Instant(start_time)}}

\* C7 (partial-failure tolerance): whatever subset of the group fetches fails,
\* the call succeeds, a failed group contributes no row, and the merged data is
\* the loaded cache together with the rows of every group that succeeded.
C7_PartialFailureTolerance ==
    \A r \in Slots :
        (req[r].pc = "done" /\ req[r].resolver = "all") =>
            LET me == req[r]
                groups == 1..Len(me.futures)
            IN  /\ me.status = "ok"
                /\ \A g \in groups :
                       /\ me.futures[g].state \in {"ok", "failed"}
                       /\ me.futures[g].state = "failed" => me.futures[g].df = <<>>
                /\ Range(me.combined_df) =
                       Range(me.cached_df) \cup
                       UNION {GroupRows(me.patient_id, me.futures[g].stream_ids,
                                        me.fetch_start_time) :
                                  g \in {h \in groups : me.futures[h].state = "ok"}}

\* one group failed, a sibling delivered rows the cache did not hold, and the
\* call returned
C7_Witness ==
    \E r \in Slots :
        /\ Returned(r) /\ req[r].resolver = "all"
        /\ \E g, h \in 1..Len(req[r].futures) :
               /\ req[r].futures[g].state = "failed"
               /\ req[r].futures[h].state = "ok"
               /\ \E row \in Range(req[r].futures[h].df) :
                      /\ NormalizeTime(row) \in Range(req[r].combined_df)
                      /\ NormalizeTime(row) \notin Range(req[r].cached_df)

\* every group of the call failed and the call returned
C7_AllFailedReached ==
    \E r \in Slots :
        /\ Returned(r) /\ Len(req[r].futures) >= 2
        /\ \A g \in 1..Len(req[r].futures) : req[r].futures[g].state = "failed"

\* C8 (validation before I/O): a call whose measurement_type is neither
\* 'tremor' nor 'dyskinesia' ends with the validation error having performed
\* no I/O: no cache read or write, no resolver call, no sample-source call.
C8_ValidationBeforeIO ==
    \A r \in Slots :
        (/\ req[r].pc # "idle" /\ req[r].status # "DateError"
         /\ req[r].measurement_type \notin {"tremor", "dyskinesia"}) =>
            /\ req[r].pc = "done"
            /\ req[r].status = "ValueError"
            /\ req[r].io = {}
            /\ req[r].futures = <<>>
            /\ cache[CachePath(req[r].patient_id)] = req[r].cache_before

\* a rejected call for a patient whose Cache Entry exists
C8_Witness ==
    \E r \in Slots :
        /\ req[r].status = "ValueError"
        /\ req[r].cache_before.exists

\* C9 (date normalization): for every selected_date, naive or zoned, the
\* window is planned: upper_bound is that instant in UTC and lower_bound is
\* upper_bound - 30 days.
C9_DateNormalization ==
    \A r \in Slots :
        (/\ req[r].pc # "idle" /\ req[r].status # "DateError"
         /\ req[r].measurement_type \in {"tremor", "dyskinesia"}) =>
            /\ req[r].status # "TypeError"
            /\ req[r].upper_bound = Aware(DateInstant(req[r].selected_date), 0)
            /\ req[r].lower_bound = Aware(WindowStart(req[r].selected_date), 0)

\* C10 (lost update; patients isolated): a Cache Entry changes only when a
\* request for that very patient persists its merge, and then becomes exactly
\* that request's merged table (last writer wins); a request for another
\* patient never changes it.
C10_PatientsIsolated ==
    [][\A p \in Patients :
          cache'[p] # cache[p] =>
              \E r \in Slots :
                  /\ req[r].pc = "fetching" /\ req'[r].pc = "done"
                  /\ req[r].patient_id = p
                  /\ cache'[p] = [exists |-> TRUE,
                                  rows |-> MapSeq(req'[r].combined_df, ToSaved)]]_vars

\* the lost update: two incremental requests of one patient loaded the same
\* Cache Entry, both persisted their merge, and the entry lacks a row that one
\* of them fetched and wrote
C10_LostUpdate ==
    \E r, q \in Slots :
        /\ r # q /\ Returned(r) /\ Returned(q)
        /\ req[r].patient_id = req[q].patient_id
        /\ req[r].cache_before = req[q].cache_before
        /\ ~req[r].repull_all /\ ~req[q].repull_all
        /\ ~req[r].write_fault /\ ~req[q].write_fault
        /\ \E row \in Range(req[r].combined_df) :
               /\ row \notin Range(req[r].cached_df)
               /\ ToSaved(row) \notin Range(cache[CachePath(req[r].patient_id)].rows)


\* C11 (HTTP error mapping): the endpoint answers 4xx exactly for the
\* validation errors (invalid measurement_type, malformed date string) and
\* 5xx for every other exception raised while serving the request, whatever
\* its type.
C11_HttpErrorMapping ==
    \A r \in Slots :
        req[r].pc = "done" =>
            LET http == HttpStatus(req[r].status)
                validation == req[r].status \in {"ValueError", "DateError"}
            IN  /\ (http \in 400..499) <=> validation
                /\ (req[r].status # "ok" /\ ~validation) => http \in 500..599


\* the rows of df of the requested kind in the window of selected_date
Requested(df, selected_date, measurement_type) ==
    SelectSeq(df, LAMBDA row :
        InWindow(row, selected_date) /\ row.measurement = measurement_type)

\* C12 (cache write failure is non-fatal): when persisting the merged table
\* fails, the call still returns the merged table filtered to the window and
\* kind - what it returns when the write succeeds - and the Cache Entry stays
\* as it was before the call.
C12_WriteFailureNonFatal ==
    \A r \in Slots :
        (req[r].pc = "done" /\ "cache_write" \in req[r].io /\ req[r].write_fault) =>
            /\ req[r].status = "ok"
            /\ req[r].result = Requested(req[r].combined_df, req[r].selected_date,
                                         req[r].measurement_type)
            /\ cache[CachePath(req[r].patient_id)] = req[r].cache_before

\* the store failed on a non-empty merged table holding rows the Cache Entry
\* lacks, and the call returned rows
C12_Witness ==
    \E r \in Slots :
        /\ Returned(r) /\ req[r].write_fault
        /\ req[r].result # <<>>
        /\ \E row \in Range(req[r].combined_df) :
               ToSaved(row) \notin Range(req[r].cache_before.rows)


\* the rows the groups of the call that succeeded delivered
FreshRows(r) ==
    UNION {GroupRows(req[r].patient_id, req[r].futures[g].stream_ids,
                     req[r].futures[g].start_time) :
               g \in {h \in 1..Len(req[r].futures) : req[r].futures[h].state = "ok"}}

\* C13 (cache read failure recovered as an empty cache): when the Cache Entry
\* exists but cannot be read, the call goes on with an empty loaded table:
\* every group fetch starts at lower_bound and the call returns a table made
\* of freshly fetched rows only.
C13_ReadFailureRecovered ==
    \A r \in Slots :
        req[r].read_fault =>
            /\ req[r].status \in {"none", "ok", "ResolverError", "ResolverValueError"}
            /\ req[r].cached_df = <<>>
            /\ \A g \in 1..Len(req[r].futures) :
                   req[r].futures[g].start_time =
                       Aware(WindowStart(req[r].selected_date), 0)
            /\ (req[r].pc = "done" /\ req[r].resolver = "all") =>
                   /\ req[r].status = "ok"
                   /\ Range(req[r].combined_df) = FreshRows(r)
                   /\ Range(req[r].result) \subseteq FreshRows(r)

\* an unreadable entry that held an in-window row of the requested kind which
\* the call, one of its groups failing, does not return
C13_Witness ==
    \E r \in Slots :
        /\ Returned(r) /\ req[r].read_fault /\ req[r].resolver = "all"
        /\ req[r].result # <<>>
        /\ \E row \in Range(Requested(EntryRows(req[r].cache_before),
                                      req[r].selected_date, req[r].measurement_type)) :
               row \notin Range(req[r].result)


\* C14 (fan-out/fan-in barrier): while a group fetch of a call is still
\* running, no step merges, persists or returns for that call: the call stays
\* in its fetch phase, its merged table and result stay empty and the cache is
\* not written, whatever the order in which the groups complete.
C14_FanInBarrier ==
    [][\A r \in Slots :
          (/\ req[r].pc = "fetching"
           /\ \E g \in 1..Len(req[r].futures) : req[r].futures[g].state = "running") =>
              /\ req'[r].pc = "fetching"
              /\ req'[r].combined_df = <<>>
              /\ req'[r].result = <<>>
              /\ "cache_write" \notin req'[r].io
              /\ cache'[CachePath(req[r].patient_id)] = req[r].cache_before]_vars

\* a later group has delivered rows while an earlier one is still running, and
\* nothing has been merged, persisted or returned
C14_Witness ==
    \E r \in Slots :
        /\ req[r].pc = "fetching" /\ Len(req[r].futures) >= 2
        /\ req[r].futures[1].state = "running"
        /\ req[r].futures[2].state = "ok" /\ req[r].futures[2].df # <<>>
        /\ req[r].combined_df = <<>> /\ req[r].result = <<>>
        /\ cache[CachePath(req[r].patient_id)] = req[r].cache_before


NoDuplicates(df) == \A i, j \in 1..Len(df) : i # j => df[i] # df[j]

\* C15 (dedup invariant): the persisted Cache Entry and every returned table
\* hold no two rows equal in all six fields; merging a persisted table with
\* itself gives it back; and the merge keeps every distinct row of the cache
\* and of the fetched data, rows differing in one field only included.
C15_DedupInvariant ==
    /\ \A p \in Patients :
           /\ NoDuplicates(cache[p].rows)
           /\ DropDuplicates(EntryRows(cache[p]) \o EntryRows(cache[p]))
                  = EntryRows(cache[p])
    /\ \A r \in Slots :
           /\ Returned(r) => NoDuplicates(req[r].result)
           /\ (req[r].pc = "done" /\ req[r].resolver = "all") =>
                  /\ NoDuplicates(req[r].combined_df)
                  /\ Range(req[r].cached_df) \cup FreshRows(r)
                         \subseteq Range(req[r].combined_df)

\* a call that fetched again rows its cache already held, among them two rows
\* that differ in their percentage only, and kept exactly one copy of each
C15_Witness ==
    \E r \in Slots :
        /\ Returned(r) /\ req[r].resolver = "all" /\ ~req[r].write_fault
        /\ req[r].cached_df # <<>>
        /\ FreshRows(r) \cap Range(req[r].cached_df) # {}
        /\ \E i, j \in 1..Len(req[r].result) :
               /\ req[r].result[i].percentage # req[r].result[j].percentage
               /\ [req[r].result[i] EXCEPT !.percentage = 0]
                      = [req[r].result[j] EXCEPT !.percentage = 0]
        /\ NoDuplicates(cache[CachePath(req[r].patient_id)].rows)


\* C16 (append-only cache): after every call, whatever repull_all is and
\* also after a recovered cache read error, the Cache Entry holds every row
\* it held before the call.
C16_AppendOnly ==
    \A r \in Slots :
        req[r].pc = "done" =>
            Range(EntryRows(req[r].cache_before))
                \subseteq Range(EntryRows(cache[CachePath(req[r].patient_id)]))


\* C17 (repull_all ignores the cache): in a call with repull_all = true the
\* Cache Entry is not read, every group fetch starts at lower_bound, and the
\* returned table is determined by the call's arguments and the fetched rows
\* alone: it is the window-and-kind filter of the deduplicated fetched rows,
\* and the empty table on the zero-stream return, whatever the prior cache.
C17_RepullIgnoresCache ==
    \A r \in Slots :
        (req[r].repull_all /\ req[r].pc # "idle") =>
            LET me == req[r]
                upper_bound == UpperBound(me.selected_date)
            IN  /\ "cache_read" \notin me.io
                /\ me.cached_df = <<>>
                /\ \A g \in 1..Len(me.futures) :
                       me.futures[g].start_time =
                           Aware(WindowStart(me.selected_date), 0)
                /\ (Returned(r) /\ me.resolver = "none") => me.result = <<>>
                /\ (Returned(r) /\ me.resolver # "none") =>
                       /\ Range(me.combined_df) = FreshRows(r)
                       /\ me.result =
                              FinalFrame(Combine(<<>>, CollectBatches(me.futures)),
                                         LowerBound(upper_bound), upper_bound,
                                         me.measurement_type)

\* a repull over a Cache Entry whose newest row is inside the window and which
\* holds a requested row the call, one of its groups having failed, does not
\* return
C17_Witness ==
    \E r \in Slots :
        /\ Returned(r) /\ req[r].repull_all /\ req[r].resolver = "all"
        /\ req[r].cache_before.exists /\ req[r].cache_before.rows # <<>>
        /\ SeqMaxInstant(EntryRows(req[r].cache_before))
               > WindowStart(req[r].selected_date)
        /\ req[r].result # <<>>
        /\ \E row \in Range(EntryRows(req[r].cache_before)) :
               /\ InWindow(row, req[r].selected_date)
               /\ row.measurement = req[r].measurement_type
               /\ row \notin Range(req[r].result)


\* the sizes of the groups the call submitted, in submission order
GroupSizes(r) == [g \in 1..Len(req[r].futures) |-> Len(req[r].futures[g].stream_ids)]

\* every identifier in exactly one group, no group empty, one fetch call per
\* group and ceil(n / BATCH_SIZE) of them
PartitionOf(r) ==
    LET me == req[r]
        n == Len(me.stream_ids)
    IN  /\ Len(me.futures) = (n + BATCH_SIZE - 1) \div BATCH_SIZE
        /\ Flatten([g \in 1..Len(me.futures) |-> me.futures[g].stream_ids])
               = me.stream_ids
        /\ \A g \in 1..Len(me.futures) : GroupSizes(r)[g] >= 1
        /\ me.pc = "done" =>
               \A g \in 1..Len(me.futures) : me.futures[g].state # "running"

\* C18 as stated (batch partitioning): the identifiers are partitioned into
\* fixed-size groups of 10, every group except possibly the last holding
\* exactly 10, each identifier in exactly one group, no group empty, one
\* fetch call per group.
C18_FixedSizeGroups ==
    \A r \in Slots :
        req[r].stream_ids # <<>> =>
            /\ PartitionOf(r)
            /\ \A g \in 1..(Len(req[r].futures) - 1) : GroupSizes(r)[g] = BATCH_SIZE

\* C18 (batch partitioning, amended): the identifiers are split, in order,
\* into ceil(n / 10) groups whose sizes differ by at most one and never exceed
\* 10, the longer groups first; each identifier is in exactly one group, no
\* group is empty, and one fetch call is issued per group.
C18_BalancedGroups ==
    \A r \in Slots :
        req[r].stream_ids # <<>> =>
            /\ PartitionOf(r)
            /\ \A g, h \in 1..Len(req[r].futures) :
                   /\ GroupSizes(r)[g] <= BATCH_SIZE
                   /\ GroupSizes(r)[g] - GroupSizes(r)[h] <= 1
                   /\ g <= h => GroupSizes(r)[g] >= GroupSizes(r)[h]

\* a finished call over BATCH_SIZE + 1 identifiers, whose two groups are both
\* shorter than BATCH_SIZE
C18_Witness ==
    \E r \in Slots :
        /\ req[r].pc = "done" /\ Len(req[r].stream_ids) = BATCH_SIZE + 1
        /\ Len(req[r].futures) = 2
        /\ GroupSizes(r)[1] = GroupSizes(r)[2] + 1
        /\ GroupSizes(r)[1] < BATCH_SIZE


\* the call of slot r ended before the merge: its measurement type was
\* rejected, the metadata resolver raised, or the resolver returned no stream
EndedBeforeMerge(r) ==
    /\ req[r].pc = "done"
    /\ \/ req[r].measurement_type \notin ALLOWED_TYPES
       \/ req[r].status \in {"ValueError", "ResolverError", "ResolverValueError"}
       \/ req[r].resolver = "none"

\* C19 (calls that never reach the merge leave the cache untouched): a call
\* that ends with a validation error, with an error of the metadata resolver
\* or with the zero-stream return writes nothing: the patient's Cache Entry is
\* what it was before the call, for every value of repull_all.
C19_NoMergeNoWrite ==
    \A r \in Slots :
        EndedBeforeMerge(r) =>
            /\ "cache_write" \notin req[r].io
            /\ "sample_source" \notin req[r].io
            /\ cache[CachePath(req[r].patient_id)] = req[r].cache_before

\* a repull that took the zero-stream return over a filled Cache Entry
C19_Witness ==
    \E r \in Slots :
        /\ EndedBeforeMerge(r) /\ req[r].resolver = "none" /\ req[r].repull_all
        /\ req[r].cache_before.rows # <<>>
        /\ cache[CachePath(req[r].patient_id)].rows # <<>>


\* C20 (recovery after a failed group fetch): when a call lost a group while
\* a sibling group succeeded, the next call with the same arguments and
\* repull_all = false, made while the sample source and the cache work,
\* returns every in-window row of the requested kind the remote API holds,
\* those the failed group did not deliver included.
C20_RecoveryAfterFailedGroup ==
    \A r \in Slots :
        (/\ Returned(r) /\ req[r].twin.is
         /\ req[r].twin.status = "ok" /\ req[r].twin.resolver = "all"
         /\ ~req[r].twin.read_fault /\ ~req[r].twin.write_fault
         /\ req[r].twin.failed # {}
         /\ req[r].twin.failed # 1..Len(req[r].futures)
         /\ req[r].resolver = "all"
         /\ ~req[r].read_fault /\ ~req[r].write_fault
         /\ \A g \in 1..Len(req[r].futures) : req[r].futures[g].state = "ok") =>
            \A row \in UpstreamRows(req[r].patient_id) :
                (/\ InWindow(row, req[r].selected_date)
                 /\ row.measurement = req[r].measurement_type) =>
                    row \in Range(req[r].result)

====
